---- MODULE Spec2Model ----
(***************************************************************************)
(* GitHubSentinel: the LLM request gateway (src/src/proxy_llm.py and the   *)
(* older src/src/llm.py) and the daemon that drives it                     *)
(* (src/src/daemon_process.py, src/src/hacker_news_client.py).             *)
(*                                                                         *)
(* A run is either a library run (a caller constructs one LLM object and   *)
(* calls its generate method any number of times) or a daemon run (main()  *)
(* of daemon_process.py), each with one generate call in progress at a     *)
(* time, or a run of two threads that share one LLM object.  A call that   *)
(* reaches a backend is resolved attempt by attempt, the backend's answer  *)
(* to each attempt being an input.                                         *)
(***************************************************************************)
EXTENDS Integers, Sequences, FiniteSets, TLC

VARIABLES
    mode,        \* "library" | "daemon" | "shared": who drives the gateway in this run
    files,       \* the file system: path -> None (unreadable) or Some(content)
    llm,         \* gateway objects: instance name -> LLM object record
    call,        \* the generate call in progress (or the last one finished)
    peer,        \* the generate call of a second thread that shares the gateway
    daemon,      \* main() of daemon_process.py: its position and the running job
    notified     \* notifier.notify calls of the running (or last) job run

vars == <<mode, files, llm, call, peer, daemon, notified>>

(***************************************************************************)
(* Bounds of the model.                                                    *)
(***************************************************************************)
\* largest max_retries a library caller passes to the constructor
MaxRetriesArg == 2
\* scheduled github cycles the daemon loop is followed through
MaxCycles == 2
\* longest subscription list
MaxRepos == 2

(***************************************************************************)
(* Python values.                                                          *)
(***************************************************************************)
\* an Optional[str]: None, or Some(s)
None == <<>>
Some(s) == <<s>>
\* Python truthiness of an Optional[str]: None and "" are falsy
Truthy(o) == o # None /\ o[1] # ""

\* a dict parsed from JSON is a function on its keys; {} is the empty one
EmptyDict == <<>>
HasKey(d, k) == k \in DOMAIN d

(***************************************************************************)
(* Program constants.                                                      *)
(***************************************************************************)
API_URL == "https://api.yesapikey.com/v1/chat/completions"
OLLAMA_API_URL == "http://localhost:11434/api/chat"
DEFAULT_MAX_RETRIES == 5
status_forcelist_without_503 == {429, 500, 502, 504}
status_forcelist == {429, 500, 502, 503, 504}
DEFAULT_MODEL_NAME == "gpt-4o-mini"
DEFAULT_PROMPT_PATH == "prompts/github_openai_report_prompt.txt"
HN_PROMPT_PATH == "prompts/hacker_news_daily_report_openai_prompt.txt"
\* llm.py reads its template from one fixed path and writes the dry-run
\* artifact to another
LLM_PY_PROMPT_PATH == "./../prompts/report_prompt.txt"
LLM_PY_DRY_RUN_PATH == "daily_progress/prompt.txt"
DRY_RUN == "DRY RUN"

Paths == {DEFAULT_PROMPT_PATH, HN_PROMPT_PATH, LLM_PY_PROMPT_PATH, LLM_PY_DRY_RUN_PATH}

(***************************************************************************)
(* Input sets.                                                             *)
(***************************************************************************)
Digests == {"- fix bug #1", "- add feature #2"}
Overrides == {None, Some(""), Some("Custom prompt")}
Contents == {"Two changes landed.", "Nothing happened."}
ModelTypes == {"openai", "yesapi", "ollama", "gemini"}
Supported == {"openai", "yesapi", "ollama"}
TemplateText == "Summarize the following:"
ApiKey == "sk-key"
Repos == {"langchain-ai/langchain", "ollama/ollama"}
\* the subscription lists list_subscriptions() can return
SubscriptionLists == UNION {[1..n -> Repos] : n \in 0..MaxRepos}


(***************************************************************************)
(* What a backend can answer.                                              *)
(***************************************************************************)
\* the answer of the Forwarded backend: choices[0].message.content = c
FwdBody(c) == [choices |-> <<[message |-> [content |-> c]]>>]
\* the answer of the Local backend: message.content = c
LocalBody(c) == [message |-> [content |-> c]]

JsonObjects ==
    {FwdBody(c) : c \in Contents \cup {""}}
        \cup {LocalBody(c) : c \in Contents}
        \cup { [choices |-> <<>>],                      \* empty candidate list
               [choices |-> <<[index |-> 0]>>],         \* a candidate without a message
               [message |-> [role |-> "assistant"]],    \* message without content
               EmptyDict }                              \* neither field

\* the body of an HTTP answer: a JSON object, a JSON array, or no JSON at all
Bodies ==
    {[kind |-> "object", obj |-> o] : o \in JsonObjects}
        \cup {[kind |-> "array", obj |-> EmptyDict], [kind |-> "invalid", obj |-> EmptyDict]}

NoBody == [kind |-> "invalid", obj |-> EmptyDict]

\* the end of one HTTP attempt: a response (retry_after: whether it carries a
\* Retry-After header), a connection failure or a timeout
HttpAnswers ==
    {[kind |-> "response", status |-> 200, retry_after |-> FALSE, body |-> b] : b \in Bodies}
        \cup {[kind |-> "response", status |-> s, retry_after |-> FALSE, body |-> NoBody] :
                s \in {404, 413, 500, 503}}
        \cup {[kind |-> "response", status |-> 413, retry_after |-> TRUE, body |-> NoBody]}
        \cup {[kind |-> k, status |-> 0, retry_after |-> FALSE, body |-> NoBody] :
                k \in {"ConnectionError", "ReadTimeout"}}

\* the answers the backend gives to the daemon's jobs
JobAnswers ==
    {[kind |-> "response", status |-> 200, retry_after |-> FALSE,
      body |-> [kind |-> "object", obj |-> o]] :
        o \in {FwdBody("Two changes landed."), [choices |-> <<>>]}}
        \cup {[kind |-> "response", status |-> 500, retry_after |-> FALSE, body |-> NoBody]}

\* the end of one call of the vendor SDK: an exception, or a response object
\* with a list of candidates
SdkAnswers ==
    {[kind |-> "APIError", choices |-> <<>>]}
        \cup {[kind |-> "response", choices |-> ch] :
                ch \in {<<>>} \cup {<<[message |-> [content |-> c]]>> : c \in Contents \cup {""}}}

(***************************************************************************)
(* CustomHTTPClient                                                        *)
(***************************************************************************)
NoClient == [kind |-> "unset", authorization |-> None, proxies |-> None, total |-> 0]

\* OpenAI(): the vendor SDK's client
OpenAIClient == [kind |-> "OpenAI", authorization |-> None, proxies |-> None, total |-> 0]

\* proxy_llm.CustomHTTPClient.__init__: the Authorization header is set only
\* for a truthy api_key, the proxies only for a truthy proxy_url; the retry
\* strategy allows max_retries retries
CustomHTTPClient(api_key, proxy_url, max_retries) ==
    [kind |-> "CustomHTTPClient",
     authorization |-> IF Truthy(api_key) THEN Some("Bearer " \o api_key[1]) ELSE None,
     proxies |-> IF Truthy(proxy_url) THEN proxy_url ELSE None,
     total |-> max_retries]

\* llm.CustomHTTPClient.__init__: the header is always set, from f"Bearer {api_key}"
LlmPyCustomHTTPClient(api_key, proxy_url, max_retries) ==
    [kind |-> "CustomHTTPClient",
     authorization |-> Some("Bearer " \o (IF api_key = None THEN "None" ELSE api_key[1])),
     proxies |-> IF Truthy(proxy_url) THEN proxy_url ELSE None,
     total |-> max_retries]

\* urllib3.Retry.RETRY_AFTER_STATUS_CODES: the Retry strategy is constructed
\* without respect_retry_after_header=False, so a response of one of these
\* statuses that carries a Retry-After header is retried as well
RETRY_AFTER_STATUS_CODES == {413, 429, 503}

IsRetryAlsoEmptyChoices(a) ==
    \/ a.kind \in {"ConnectionError", "ReadTimeout"}
    \/ a.kind = "response" /\ a.status \in status_forcelist
    \/ a.kind = "response" /\ a.status = 200 /\ a.body.obj = [choices |-> <<>>]

\* urllib3.Retry as configured: an attempt is retried when it ends with a
\* connection failure, a timeout, a status of status_forcelist, or a status
\* of RETRY_AFTER_STATUS_CODES together with a Retry-After header
IsRetry(a) ==
    \/ a.kind \in {"ConnectionError", "ReadTimeout"}
    \/ a.kind = "response" /\ a.status \in status_forcelist
    \/ a.kind = "response" /\ a.retry_after /\ a.status \in RETRY_AFTER_STATUS_CODES

\* the exception in which one session.request / raise_for_status / json()
\* ends when the retry loop is over with answer a ("" when there is none):
\* retries exhausted, an error status, or a body that is no JSON
SessionException(a) ==
    IF a.kind = "response" /\ a.status \in status_forcelist THEN "RetryError"
    ELSE IF a.kind \in {"ConnectionError", "ReadTimeout"} THEN "ConnectionError"
    ELSE IF a.status >= 400 THEN "HTTPError"
    ELSE IF a.body.kind = "invalid" THEN "JSONDecodeError"
    ELSE ""

\* the classes "except requests.exceptions.RequestException" catches
RequestException == {"RetryError", "ConnectionError", "HTTPError", "JSONDecodeError"}

Entry(msg) == [msg |-> msg, raw |-> None]

\* CustomHTTPClient.request once the session's retry loop has ended with
\* answer a: the parsed JSON, or {} after a RequestException
request(a) ==
    LET e == SessionException(a)
    IN  IF e = "" THEN [value |-> a.body, log |-> <<>>, exc |-> ""]
        ELSE IF e \in RequestException
             THEN [value |-> [kind |-> "object", obj |-> EmptyDict],
                   log |-> <<Entry("Request failed")>>, exc |-> ""]
        ELSE [value |-> [kind |-> "object", obj |-> EmptyDict], log |-> <<>>, exc |-> e]

(***************************************************************************)
(* _get_response                                                           *)
(***************************************************************************)
ErrorOccurred == Entry("An error occurred while getting the response")
NoChoices == Entry("No choices found in the response.")

\* the request body: data of proxy_llm._get_response
RequestData(model_type, model_name, messages) ==
    IF model_type = "ollama"
    THEN [model |-> model_name, messages |-> messages, max_tokens |-> 10000,
          context_length |-> 10000, top_p |-> 1, temperature |-> 1, stream |-> FALSE]
    ELSE [model |-> model_name, messages |-> messages, temperature |-> 1,
          max_tokens |-> 100, top_p |-> 1]

\* the request body: data of llm._get_response
LlmPyRequestData(messages) ==
    [model |-> DEFAULT_MODEL_NAME, messages |-> messages, temperature |-> 1,
     max_tokens |-> 1000, top_p |-> 1]

RequestUrlProxyOnly(model_type) == API_URL

\* request_api_url of proxy_llm._get_response
RequestUrl(model_type) == IF model_type = "ollama" THEN OLLAMA_API_URL ELSE API_URL

Raises(e) == [ret |-> "", log |-> <<>>, exc |-> e]
Gives(ret, log) == [ret |-> ret, log |-> log, exc |-> ""]

\* response.choices[0].message.content of the SDK's answer; the SDK raises, or
\* the list of candidates is empty (IndexError)
SdkContent(a) ==
    IF a.kind # "response" THEN Raises("APIError")
    ELSE IF a.choices = <<>> THEN Raises("IndexError")
    ELSE Gives(a.choices[1].message.content, <<>>)

\* the yesapi branch: response.get('choices'), then choices[0]['message']['content'];
\* a list has no get (AttributeError), a candidate without a message no such
\* key (KeyError)
YesapiContent(v) ==
    IF v.kind # "object" THEN Raises("AttributeError")
    ELSE IF ~HasKey(v.obj, "choices") \/ v.obj.choices = <<>>
         THEN Gives("", <<NoChoices>>)
    ELSE IF ~HasKey(v.obj.choices[1], "message") THEN Raises("KeyError")
    ELSE Gives(v.obj.choices[1].message.content, <<>>)

\* whether the value request() returned has an attribute "text": it is a dict
\* (or a list), never the HTTP response object
HasAttrText(v) == v.kind \notin {"object", "array"}

OllamaContentTopLevel(v) ==
    IF v.kind = "object" /\ HasKey(v.obj, "content") THEN Gives(v.obj.content, <<>>)
    ELSE Raises("AttributeError")

\* the ollama branch: response.get("message", {}).get("content"); without a
\* truthy content the error message is formatted from response.text
\* (AttributeError on a dict, before LOG.error is called), then ValueError
OllamaContent(v) ==
    IF v.kind # "object" THEN Raises("AttributeError")
    ELSE IF HasKey(v.obj, "message") /\ HasKey(v.obj.message, "content")
            /\ v.obj.message.content # ""
         THEN Gives(v.obj.message.content, <<>>)
    ELSE IF HasAttrText(v)
         THEN [ret |-> "",
               log |-> <<[msg |-> "cannot extract the report content", raw |-> Some(v)]>>,
               exc |-> "ValueError"]
    ELSE Raises("AttributeError")

ExceptValueError(e) == e = "ValueError"

\* the classes "except Exception" of _get_response catches: every exception
\* the try block can raise
ExceptException(e) == e # ""

\* the try/except of _get_response around the outcome c of its try block
TryExcept(c) ==
    IF c.exc = "" THEN c
    ELSE IF ExceptException(c.exc) THEN Gives("", c.log \o <<ErrorOccurred>>)
    ELSE c

\* proxy_llm._get_response with the SDK's client
get_response_openai(a) == TryExcept(SdkContent(a))

\* proxy_llm._get_response with the HTTP client: the branch of model_type;
\* neither branch falls through to the final return ""
get_response(model_type, a) ==
    LET r == request(a)
        c == IF r.exc # "" THEN Raises(r.exc)
             ELSE IF model_type = "yesapi" THEN YesapiContent(r.value)
             ELSE IF model_type = "ollama" THEN OllamaContent(r.value)
             ELSE Gives("", <<>>)
    IN  TryExcept([c EXCEPT !.log = r.log \o c.log])

\* llm._get_response with the HTTP client:
\* "if response and response.get('choices')"
LlmPyContent(v) ==
    IF v.kind = "object" /\ v.obj = EmptyDict THEN Gives("", <<NoChoices>>)
    ELSE YesapiContent(v)

llm_py_get_response(a) ==
    LET r == request(a)
        c == IF r.exc # "" THEN Raises(r.exc) ELSE LlmPyContent(r.value)
    IN  TryExcept([c EXCEPT !.log = r.log \o c.log])

(***************************************************************************)
(* LLM: construction                                                       *)
(***************************************************************************)
Instances == {"lib", "github", "hn"}

NoLLM ==
    [state |-> "absent", module |-> "", model_type |-> "", model_name |-> "",
     max_retries |-> 0, prompt_file_path |-> "", default_prompt |-> "", client |-> NoClient]

\* proxy_llm.LLM.__init__: the client of model_type (none for a model_type that is
\* none of the three), then the template is read.  api_key is
\* os.getenv("OPENAI_API_KEY"); the SDK's OpenAI() raises without it, open()
\* raises on an unreadable path.
ProxyLLM(max_retries, model_type, prompt_file_path, api_key, fs) ==
    LET client == IF model_type = "openai" THEN OpenAIClient
                  ELSE IF model_type = "yesapi" THEN CustomHTTPClient(api_key, Some(API_URL), max_retries)
                  ELSE IF model_type = "ollama" THEN CustomHTTPClient(None, Some(OLLAMA_API_URL), max_retries)
                  ELSE NoClient
        raises == \/ model_type = "openai" /\ api_key = None
                  \/ fs[prompt_file_path] = None
    IN  IF raises THEN [NoLLM EXCEPT !.state = "failed"]
        ELSE [state |-> "constructed", module |-> "proxy_llm", model_type |-> model_type,
              model_name |-> DEFAULT_MODEL_NAME, max_retries |-> max_retries,
              prompt_file_path |-> prompt_file_path,
              default_prompt |-> fs[prompt_file_path][1], client |-> client]

\* llm.LLM.__init__: the HTTP client when OPENAI_PROXY_URL is set, the SDK's
\* client otherwise; the template is read from a fixed path
LlmPyLLM(max_retries, proxy_url, api_key, fs) ==
    LET client == IF Truthy(proxy_url) THEN LlmPyCustomHTTPClient(api_key, proxy_url, max_retries)
                  ELSE OpenAIClient
        raises == \/ ~Truthy(proxy_url) /\ api_key = None
                  \/ fs[LLM_PY_PROMPT_PATH] = None
    IN  IF raises THEN [NoLLM EXCEPT !.state = "failed"]
        ELSE [state |-> "constructed", module |-> "llm", model_type |-> "",
              model_name |-> DEFAULT_MODEL_NAME, max_retries |-> max_retries,
              prompt_file_path |-> LLM_PY_PROMPT_PATH,
              default_prompt |-> fs[LLM_PY_PROMPT_PATH][1], client |-> client]

(***************************************************************************)
(* LLM: generate_github_daily_report, generate_hn_daily_report (proxy_llm)  *)
(* and generate_daily_report (llm): the same code but for the dry-run path  *)
(***************************************************************************)
EffectivePromptIfNone(prompt, default_prompt) ==
    IF prompt = None THEN default_prompt ELSE prompt[1]

\* "if not prompt: prompt = self.default_prompt"
EffectivePrompt(prompt, default_prompt) ==
    IF ~Truthy(prompt) THEN default_prompt ELSE prompt[1]

MessagesUserFirst(prompt, markdown_content) ==
    <<[role |-> "user", content |-> markdown_content],
      [role |-> "system", content |-> prompt]>>

\* messages of generate: the system message, then the user message
Messages(prompt, markdown_content) ==
    <<[role |-> "system", content |-> prompt],
      [role |-> "user", content |-> markdown_content]>>

\* json.dump(messages, f, indent=4, ensure_ascii=False): the text written
Dump(messages) ==
    "[{\"role\": \"" \o messages[1].role \o "\", \"content\": \"" \o messages[1].content
        \o "\"}, {\"role\": \"" \o messages[2].role \o "\", \"content\": \""
        \o messages[2].content \o "\"}]"

\* where the dry-run branch writes: proxy_llm opens self.prompt_file_path,
\* llm opens "daily_progress/prompt.txt"
DryRunPath(o) ==
    IF o.module = "proxy_llm" THEN o.prompt_file_path ELSE LLM_PY_DRY_RUN_PATH

\* the request the client sends for a conversation
Request(o, messages) ==
    IF o.module = "proxy_llm"
    THEN [url |-> IF o.client.kind = "OpenAI" THEN "" ELSE RequestUrl(o.model_type),
          authorization |-> o.client.authorization,
          json |-> RequestData(o.model_type, o.model_name, messages)]
    ELSE [url |-> IF o.client.kind = "OpenAI" THEN "" ELSE API_URL,
          authorization |-> o.client.authorization,
          json |-> LlmPyRequestData(messages)]

IdleCall ==
    [pc |-> "idle", gw |-> "lib", markdown_content |-> "", prompt |-> None,
     dry_run |-> FALSE, messages |-> <<>>, retries_left |-> 0, sent |-> <<>>,
     answers |-> <<>>, outcome |-> "none", result |-> "", log |-> <<>>]

\* the end of generate with the outcome r of _get_response: an exception
\* passes through; "if response_content: return it, else log and return ''"
Returned(c, r) ==
    IF r.exc # "" THEN [c EXCEPT !.pc = "done", !.outcome = "raised", !.log = c.log \o r.log]
    ELSE [c EXCEPT !.pc = "done", !.outcome = "returned", !.result = r.ret,
                   !.log = c.log \o r.log \o
                           (IF r.ret # "" THEN <<>>
                            ELSE <<Entry("Failed to get a valid response from the GPT model.")>>)]

\* generate after the dry-run branch: self.client is read (AttributeError when
\* __init__ set none, outside any try) and the first request is sent
Dispatch(c, o, messages) ==
    /\ files' = files
    /\ IF o.client.kind = "unset"
       THEN call' = [c EXCEPT !.pc = "done", !.outcome = "raised"]
       ELSE call' = [c EXCEPT !.pc = "dispatched", !.retries_left = o.client.total,
                              !.sent = <<Request(o, messages)>>]

DryRunIgnored(c, o, messages, writable) == Dispatch(c, o, messages)

\* the dry-run branch of generate: the conversation is written, "DRY RUN" is
\* returned.  writable: whether open(path, "w+") succeeds.
DryRun(c, o, messages, writable) ==
    IF writable
    THEN /\ files' = [files EXCEPT ![DryRunPath(o)] = Some(Dump(messages))]
         /\ call' = [c EXCEPT !.pc = "done", !.outcome = "returned", !.result = DRY_RUN]
    ELSE /\ files' = files
         /\ call' = [c EXCEPT !.pc = "done", !.outcome = "raised"]

DefaultPromptReread(o, fs) == fs[o.prompt_file_path][1]

\* self.default_prompt: the attribute __init__ set, not the file
DefaultPrompt(o, fs) == o.default_prompt

\* generate up to its first request
generate(gw, markdown_content, prompt, dry_run, writable) ==
    LET o == llm[gw]
        messages == Messages(EffectivePrompt(prompt, DefaultPrompt(o, files)), markdown_content)
        c == [IdleCall EXCEPT !.gw = gw, !.markdown_content = markdown_content,
                              !.prompt = prompt, !.dry_run = dry_run,
                              !.messages = messages]
    IN  /\ call.pc = "idle"
        /\ o.state = "constructed"
        /\ IF dry_run THEN DryRun(c, o, messages, writable)
           ELSE Dispatch(c, o, messages)

CanRetryOffByOne(a, retries_left) == IsRetry(a) /\ retries_left >= 0

CanRetryUnbounded(a, retries_left) == IsRetry(a)

\* urllib3.Retry(total=max_retries): an attempt that is to be retried is
\* retried while retries are left
CanRetry(a, retries_left) == IsRetry(a) /\ retries_left > 0

\* one attempt of the HTTP session ends with answer a: the same request is sent
\* again while the retry budget lasts, else request() and _get_response finish
HttpAttempt(a) ==
    LET o == llm[call.gw]
        c == [call EXCEPT !.answers = Append(call.answers, a)]
    IN  /\ call.pc = "dispatched"
        /\ o.client.kind = "CustomHTTPClient"
        /\ IF CanRetry(a, call.retries_left)
           THEN call' = [c EXCEPT !.retries_left = call.retries_left - 1,
                                  !.sent = Append(call.sent, call.sent[Len(call.sent)])]
           ELSE call' = Returned(c, IF o.module = "proxy_llm"
                                    THEN get_response(o.model_type, a)
                                    ELSE llm_py_get_response(a))
        /\ UNCHANGED <<mode, peer, files, llm, daemon, notified>>

\* client.chat.completions.create(**data) ends with answer a
SdkAttempt(a) ==
    LET c == [call EXCEPT !.answers = Append(call.answers, a)]
    IN  /\ call.pc = "dispatched"
        /\ llm[call.gw].client.kind = "OpenAI"
        /\ call' = Returned(c, get_response_openai(a))
        /\ UNCHANGED <<mode, peer, files, llm, daemon, notified>>

(***************************************************************************)
(* A library caller                                                        *)
(***************************************************************************)
LibConstructProxy ==
    /\ mode = "library"
    /\ llm["lib"].state = "absent"
    /\ \E max_retries \in 0..MaxRetriesArg, model_type \in ModelTypes,
          api_key \in {None, Some(ApiKey)} :
          llm' = [llm EXCEPT !["lib"] =
                    ProxyLLM(max_retries, model_type, DEFAULT_PROMPT_PATH, api_key, files)]
    /\ UNCHANGED <<mode, peer, files, call, daemon, notified>>

LibConstructLlmPy ==
    /\ mode = "library"
    /\ llm["lib"].state = "absent"
    /\ \E max_retries \in 0..MaxRetriesArg, proxy_url \in {None, Some(API_URL)},
          api_key \in {None, Some(ApiKey)} :
          llm' = [llm EXCEPT !["lib"] = LlmPyLLM(max_retries, proxy_url, api_key, files)]
    /\ UNCHANGED <<mode, peer, files, call, daemon, notified>>

LibGenerate ==
    /\ mode = "library"
    /\ \E markdown_content \in Digests, prompt \in Overrides, dry_run \in BOOLEAN,
          writable \in BOOLEAN :
          generate("lib", markdown_content, prompt, dry_run, writable)
    /\ UNCHANGED <<mode, peer, llm, daemon, notified>>

LibAttempt ==
    /\ mode = "library"
    /\ \E a \in HttpAnswers : HttpAttempt(a)

LibSdkAttempt ==
    /\ mode = "library"
    /\ \E a \in SdkAnswers : SdkAttempt(a)

\* the caller has the outcome of the call; the next call may start
LibReturn ==
    /\ mode = "library"
    /\ call.pc = "done"
    /\ call' = IdleCall
    /\ UNCHANGED <<mode, peer, files, llm, daemon, notified>>

(***************************************************************************)
(* daemon_process.py                                                       *)
(***************************************************************************)
\* positional parameters of the job functions, and the arguments main() passes
\* when it calls them at startup and when it registers them with schedule
GithubJobParams == 5
GithubStartupArgs == 5
GithubScheduledArgs == 5
HackerNewsJobParams == 5
HnStartupArgs == 5
HnScheduledArgs == 3

\* calling a function that has no default values: TypeError unless every
\* parameter gets an argument
CallRaisesTypeError(nargs, nparams) == nargs # nparams

IdleDaemon ==
    [pc |-> "boot", phase |-> "", api_key |-> None, subscriptions |-> <<>>, i |-> 0,
     cycles |-> 0, cause |-> "", status |-> 0, job |-> "", trace |-> <<>>]

\* the process ends: SystemExit from graceful_shutdown (status 0), sys.exit(1)
\* of the loop's except branch, or an exception nothing catches (status 1)
Exited(d, cause, status) ==
    [d EXCEPT !.pc = "exited", !.cause = cause, !.status = status]

\* a job raised: the calls at startup (lines 71 and 83) are outside the try
\* of main(); run_pending() is inside it, and its except branch exits
JobRaised(d) ==
    IF d.phase = "startup" THEN Exited(d, "startup job raised", 1)
    ELSE Exited(d, "scheduled job raised", 1)

\* report_generator (ReportGenerator, not among the sources): reads the digest
\* file and asks the gateway for the report with the default prompt
ReportGeneratorGenerate(gw, markdown_content) ==
    generate(gw, markdown_content, None, FALSE, TRUE)

\* github_job up to its loop: list_subscriptions().  trace: the steps of the
\* job run, each with the repository it is for
EnterGithubJob(d, phase, subs) ==
    [d EXCEPT !.pc = "github_job", !.phase = phase, !.subscriptions = subs, !.i = 1,
              !.job = "github", !.trace = <<>>]

\* one more step of the job run
Step(d, step) == [d EXCEPT !.trace = Append(d.trace, <<step, d.subscriptions[d.i]>>)]

StepRaisedNextRepo(d) == [Step(d, "raised") EXCEPT !.i = d.i + 1]

\* a call in the loop body of github_job raised: nothing in github_job catches
\* it, the job run is over
StepRaised(d) == JobRaised(Step(d, "raised"))

\* main() lines 54-71: the github gateway is constructed, github_job is called
MainGithub ==
    /\ mode = "daemon"
    /\ daemon.pc = "boot"
    /\ \E api_key \in {None, Some(ApiKey)}, subs \in SubscriptionLists :
          LET o == ProxyLLM(DEFAULT_MAX_RETRIES, "yesapi", DEFAULT_PROMPT_PATH, api_key, files)
              d == [daemon EXCEPT !.api_key = api_key]
          IN  /\ llm' = [llm EXCEPT !["github"] = o]
              /\ daemon' = IF o.state = "failed" THEN Exited(d, "construction raised", 1)
                           ELSE IF CallRaisesTypeError(GithubStartupArgs, GithubJobParams)
                                THEN JobRaised([d EXCEPT !.phase = "startup"])
                           ELSE EnterGithubJob(d, "startup", subs)
    /\ notified' = <<>>
    /\ UNCHANGED <<mode, peer, files, call>>

\* github_job, one repository: export_progress_by_date_range, then
\* generate_report_by_date_range up to the first request
GithubJobRepo ==
    /\ mode = "daemon"
    /\ daemon.pc = "github_job"
    /\ daemon.i <= Len(daemon.subscriptions)
    /\ call.pc = "idle"
    /\ \E export_raises \in BOOLEAN :
          IF export_raises
          THEN /\ daemon' = StepRaised(daemon)
               /\ UNCHANGED <<files, call>>
          ELSE /\ \E markdown_content \in Digests :
                     ReportGeneratorGenerate("github", markdown_content)
               /\ daemon' = Step(Step(daemon, "export"), "report")
    /\ UNCHANGED <<mode, peer, llm, notified>>

\* the backend answers an attempt of the job's call
JobAttempt ==
    /\ mode = "daemon"
    /\ daemon.pc \in {"github_job", "hn_job"}
    /\ \E a \in JobAnswers : HttpAttempt(a)

\* github_job, one repository: the report is back, notifier.notify(repo, report)
GithubJobNotify ==
    /\ mode = "daemon"
    /\ daemon.pc = "github_job"
    /\ call.pc = "done"
    /\ \E notify_raises \in BOOLEAN :
          IF call.outcome = "raised" \/ notify_raises
          THEN /\ daemon' = StepRaised(daemon)
               /\ notified' = notified
          ELSE /\ daemon' = [Step(daemon, "notify") EXCEPT !.i = daemon.i + 1]
               /\ notified' = Append(notified,
                                     <<daemon.subscriptions[daemon.i], call.result>>)
    /\ call' = IdleCall
    /\ UNCHANGED <<mode, peer, files, llm>>

\* github_job returns: to main() at startup, to the loop from run_pending()
GithubJobEnd ==
    /\ mode = "daemon"
    /\ daemon.pc = "github_job"
    /\ daemon.i > Len(daemon.subscriptions)
    /\ call.pc = "idle"
    /\ daemon' = IF daemon.phase = "startup" THEN [daemon EXCEPT !.pc = "hn_setup"]
                 ELSE [daemon EXCEPT !.pc = "loop", !.cycles = daemon.cycles + 1]
    /\ UNCHANGED <<mode, peer, files, llm, call, notified>>

\* main() lines 77-83: the hacker-news gateway is constructed, hacker_news_job
\* is called
MainHn ==
    /\ mode = "daemon"
    /\ daemon.pc = "hn_setup"
    /\ LET o == ProxyLLM(DEFAULT_MAX_RETRIES, "yesapi", HN_PROMPT_PATH, daemon.api_key, files)
           d == [daemon EXCEPT !.job = "hn", !.trace = <<>>]
       IN  /\ llm' = [llm EXCEPT !["hn"] = o]
           /\ daemon' = IF o.state = "failed" THEN Exited(d, "construction raised", 1)
                        ELSE IF CallRaisesTypeError(HnStartupArgs, HackerNewsJobParams)
                             THEN JobRaised(d)
                        ELSE [d EXCEPT !.pc = "hn_job"]
    /\ notified' = <<>>
    /\ UNCHANGED <<mode, peer, files, call>>

\* HackerNewsClient.export_top_stories: the path of the file written, None when
\* no story was fetched, or an exception (of _parse_stories, makedirs or open)
ExportTopStories == {"path", "None", "raise"}

\* report_generator (not among the sources) given the path export returned:
\* there is no digest to read at None
ReportGeneratorRaises(markdown_file_path) == markdown_file_path = "None"

\* hacker_news_job: export_top_stories (an exception passes through), then
\* generate_hn_topic_report up to the first request
HnJobExport ==
    /\ mode = "daemon"
    /\ daemon.pc = "hn_job"
    /\ call.pc = "idle"
    /\ \E markdown_file_path \in ExportTopStories :
          IF markdown_file_path # "raise" /\ ~ReportGeneratorRaises(markdown_file_path)
          THEN /\ \E markdown_content \in Digests :
                     ReportGeneratorGenerate("hn", markdown_content)
               /\ daemon' = daemon
          ELSE /\ daemon' = JobRaised(daemon)
               /\ UNCHANGED <<files, call>>
    /\ UNCHANGED <<mode, peer, llm, notified>>

\* hacker_news_job: the report is back, notifier.notify, the job returns
HnJobNotify ==
    /\ mode = "daemon"
    /\ daemon.pc = "hn_job"
    /\ call.pc = "done"
    /\ IF call.outcome = "raised"
       THEN /\ daemon' = JobRaised(daemon)
            /\ notified' = notified
       ELSE /\ daemon' = [daemon EXCEPT !.pc = "loop"]
            /\ notified' = Append(notified, <<"hack news daily report", call.result>>)
    /\ call' = IdleCall
    /\ UNCHANGED <<mode, peer, files, llm>>

\* the loop: run_pending() runs the github job that is due
RunPendingGithub ==
    /\ mode = "daemon"
    /\ daemon.pc = "loop"
    /\ daemon.cycles < MaxCycles
    /\ \E subs \in SubscriptionLists :
          daemon' = IF CallRaisesTypeError(GithubScheduledArgs, GithubJobParams)
                    THEN JobRaised([daemon EXCEPT !.phase = "scheduled", !.job = "github",
                                                   !.trace = <<>>])
                    ELSE EnterGithubJob(daemon, "scheduled", subs)
    /\ notified' = <<>>
    /\ UNCHANGED <<mode, peer, files, llm, call>>

\* the loop: run_pending() runs the hacker-news job that is due, with the
\* arguments it was registered with
RunPendingHn ==
    /\ mode = "daemon"
    /\ daemon.pc = "loop"
    /\ LET d == [daemon EXCEPT !.phase = "scheduled", !.job = "hn", !.trace = <<>>]
       IN  daemon' = IF CallRaisesTypeError(HnScheduledArgs, HackerNewsJobParams)
                     THEN JobRaised(d)
                     ELSE [d EXCEPT !.pc = "hn_job"]
    /\ notified' = <<>>
    /\ UNCHANGED <<mode, peer, files, llm, call>>

\* SIGTERM: graceful_shutdown, sys.exit(0)
graceful_shutdown ==
    /\ mode = "daemon"
    /\ daemon.pc \notin {"boot", "exited"}
    /\ daemon' = Exited(daemon, "SIGTERM", 0)
    /\ UNCHANGED <<mode, peer, files, llm, call, notified>>

Init ==
    /\ mode \in {"library", "daemon"}
    /\ \E readable \in BOOLEAN :
          files = [p \in Paths |->
                     IF p = LLM_PY_DRY_RUN_PATH \/ ~readable THEN None ELSE Some(TemplateText)]
    /\ llm = [i \in Instances |-> NoLLM]
    /\ call = IdleCall
    /\ peer = IdleCall
    /\ daemon = IdleDaemon
    /\ notified = <<>>

Next ==
    \/ LibConstructProxy
    \/ LibConstructLlmPy
    \/ LibGenerate
    \/ LibAttempt
    \/ LibSdkAttempt
    \/ LibReturn
    \/ MainGithub
    \/ GithubJobRepo
    \/ JobAttempt
    \/ GithubJobNotify
    \/ GithubJobEnd
    \/ MainHn
    \/ HnJobExport
    \/ HnJobNotify
    \/ RunPendingGithub
    \/ RunPendingHn
    \/ graceful_shutdown

Spec == Init /\ [][Next]_vars

(***************************************************************************)
(* Every attempt ends: the timeout of session.request bounds the HTTP      *)
(* attempt (timeout=self.timeout), the SDK's call returns or raises.  The  *)
(* ways an HTTP attempt ends: one of each kind.                            *)
(***************************************************************************)
EndingAnswers ==
    {[kind |-> "response", status |-> 200, retry_after |-> FALSE,
      body |-> [kind |-> "object", obj |-> o]] :
        o \in {FwdBody("Two changes landed."), LocalBody("Nothing happened."), EmptyDict}}
        \cup {[kind |-> "response", status |-> s, retry_after |-> FALSE, body |-> NoBody] :
                s \in {404, 503}}
        \cup {[kind |-> k, status |-> 0, retry_after |-> FALSE, body |-> NoBody] :
                k \in {"ConnectionError", "ReadTimeout"}}

LibAttemptEnds ==
    /\ mode = "library"
    /\ \E a \in EndingAnswers : HttpAttempt(a)

NextAttemptsEnd ==
    \/ LibConstructProxy
    \/ LibConstructLlmPy
    \/ LibGenerate
    \/ LibAttemptEnds
    \/ LibSdkAttempt
    \/ LibReturn
    \/ MainGithub
    \/ GithubJobRepo
    \/ JobAttempt
    \/ GithubJobNotify
    \/ GithubJobEnd
    \/ MainHn
    \/ HnJobExport
    \/ HnJobNotify
    \/ RunPendingGithub
    \/ RunPendingHn
    \/ graceful_shutdown

SpecAttemptsEnd ==
    /\ Init
    /\ [][NextAttemptsEnd]_vars
    /\ WF_vars(LibAttemptEnds)
    /\ WF_vars(LibSdkAttempt)
    /\ WF_vars(JobAttempt)

(***************************************************************************)
(* Two threads share one gateway object.  call is the generate call of the *)
(* thread that is running, peer the call of the thread that is not; the    *)
(* interpreter switches threads between any two steps.  The LLM object,    *)
(* its client and the file system are shared by both.                      *)
(***************************************************************************)
\* max_retries of the shared gateway
SharedMaxRetries == 1

\* what the backends answer the two threads: content in the shape of either
\* HTTP variant, or a 503
SharedAnswers ==
    {[kind |-> "response", status |-> 200, retry_after |-> FALSE,
      body |-> [kind |-> "object", obj |-> o]] :
        o \in {FwdBody("Two changes landed."), LocalBody("Nothing happened.")}}
        \cup {[kind |-> "response", status |-> 503, retry_after |-> FALSE, body |-> NoBody]}

SharedConstruct ==
    /\ mode = "shared"
    /\ llm["lib"].state = "absent"
    /\ \E model_type \in Supported :
          llm' = [llm EXCEPT !["lib"] =
                    ProxyLLM(SharedMaxRetries, model_type, DEFAULT_PROMPT_PATH,
                             Some(ApiKey), files)]
    /\ UNCHANGED <<mode, peer, files, call, daemon, notified>>

\* the running thread calls generate
SharedGenerate ==
    /\ mode = "shared"
    /\ \E markdown_content \in Digests, prompt \in {None, Some("Custom prompt")},
          dry_run \in BOOLEAN :
          generate("lib", markdown_content, prompt, dry_run, TRUE)
    /\ UNCHANGED <<mode, peer, llm, daemon, notified>>

\* an attempt of the running thread's call ends
SharedAttempt ==
    /\ mode = "shared"
    /\ \E a \in SharedAnswers : HttpAttempt(a)

SharedSdkAttempt ==
    /\ mode = "shared"
    /\ \E a \in SdkAnswers : SdkAttempt(a)

\* the running thread has the outcome of its call
SharedReturn ==
    /\ mode = "shared"
    /\ call.pc = "done"
    /\ call' = IdleCall
    /\ UNCHANGED <<mode, peer, files, llm, daemon, notified>>

\* the interpreter switches to the other thread
Switch ==
    /\ mode = "shared"
    /\ llm["lib"].state = "constructed"
    /\ call # peer
    /\ call' = peer
    /\ peer' = call
    /\ UNCHANGED <<mode, files, llm, daemon, notified>>

InitShared ==
    /\ mode = "shared"
    /\ files = [p \in Paths |-> IF p = LLM_PY_DRY_RUN_PATH THEN None ELSE Some(TemplateText)]
    /\ llm = [i \in Instances |-> NoLLM]
    /\ call = IdleCall
    /\ peer = IdleCall
    /\ daemon = IdleDaemon
    /\ notified = <<>>

NextShared ==
    \/ SharedConstruct
    \/ SharedGenerate
    \/ SharedAttempt
    \/ SharedSdkAttempt
    \/ SharedReturn
    \/ Switch

SpecShared == InitShared /\ [][NextShared]_vars

(***************************************************************************)
(* The claims.                                                             *)
(***************************************************************************)
\* the variant of a gateway object
Direct(o) == o.client.kind = "OpenAI"
Forwarded(o) ==
    \/ o.module = "proxy_llm" /\ o.model_type = "yesapi"
    \/ o.module = "llm" /\ o.client.kind = "CustomHTTPClient"
Local(o) == o.module = "proxy_llm" /\ o.model_type = "ollama"

IsStatus(a, s) == a.kind = "response" /\ a.status = s

\* the content field of a successful answer in the shape of the variant, None
\* when the answer is no success or has no such field
FwdContentField(a) ==
    IF /\ IsStatus(a, 200) /\ a.body.kind = "object"
       /\ HasKey(a.body.obj, "choices") /\ a.body.obj.choices # <<>>
       /\ HasKey(a.body.obj.choices[1], "message")
    THEN Some(a.body.obj.choices[1].message.content) ELSE None
LocalContentField(a) ==
    IF /\ IsStatus(a, 200) /\ a.body.kind = "object"
       /\ HasKey(a.body.obj, "message") /\ HasKey(a.body.obj.message, "content")
    THEN Some(a.body.obj.message.content) ELSE None
DirectContentField(a) ==
    IF a.kind = "response" /\ a.choices # <<>>
    THEN Some(a.choices[1].message.content) ELSE None
ContentField(o, a) ==
    IF Direct(o) THEN DirectContentField(a)
    ELSE IF Forwarded(o) THEN FwdContentField(a)
    ELSE IF Local(o) THEN LocalContentField(a)
    ELSE None

\* what the value generate returned tells its caller: generate returns a str,
\* "DRY RUN" in dry-run, the report, or "" for a failure of any kind
KindOfResult(result) ==
    IF result = DRY_RUN THEN "Sentinel" ELSE IF result # "" THEN "Report" ELSE "Failure"

\* C1: Forwarded variant, the first k < max_retries attempts answered 503: the
\* call is still in progress after k such answers with k+1 requests sent, and
\* when attempt k+1 is answered 200 with a non-empty choices[0].message.content
\* generate returns that content, k+1 requests were sent, and every request
\* carries the same body, which holds the call's conversation.
C1_RetryThenSuccess ==
    LET o == llm[call.gw]
        n == Len(call.answers)
    IN  (/\ Forwarded(o) /\ ~call.dry_run /\ n >= 1 /\ n - 1 < o.max_retries
         /\ \A j \in 1..(n - 1) : IsStatus(call.answers[j], 503))
        => /\ IsStatus(call.answers[n], 503)
                => call.pc = "dispatched" /\ Len(call.sent) = n + 1
           /\ Truthy(FwdContentField(call.answers[n]))
                => /\ call.pc = "done" /\ call.outcome = "returned"
                   /\ call.result = FwdContentField(call.answers[n])[1]
                   /\ Len(call.sent) = n
                   /\ \A j \in 1..n : /\ call.sent[j] = call.sent[1]
                                      /\ call.sent[j].json.messages = call.messages

C1_Witness ==
    /\ Forwarded(llm[call.gw]) /\ call.pc = "done" /\ Len(call.answers) = 2
    /\ IsStatus(call.answers[1], 503)
    /\ call.result = "Two changes landed." /\ Len(call.sent) = 2

C3_DryRunNoNetwork ==
    call.dry_run
        => /\ call.pc = "done"
           /\ call.sent = <<>> /\ call.answers = <<>>
           /\ call.outcome = "returned"
                => call.result = DRY_RUN /\ call.result \notin Contents

C3_Witness ==
    /\ call.dry_run /\ call.outcome = "returned" /\ call.result = DRY_RUN
    /\ llm[call.gw].model_type = "yesapi"

\* C4: no failure of a scheduled job cycle leads to the state where the
\* daemon has exited.
C4_DaemonSurvivesJobFailure ==
    ~(daemon.pc = "exited" /\ daemon.cause = "scheduled job raised")

\* C5: a generate call without dry_run whose backend answers successfully with
\* a non-empty content field returns exactly that content, for every digest and
\* every variant.
C5_ReturnsBackendContent ==
    LET o == llm[call.gw]
        n == Len(call.answers)
    IN  (call.pc = "done" /\ ~call.dry_run /\ n >= 1
            /\ Truthy(ContentField(o, call.answers[n])))
        => /\ call.outcome = "returned"
           /\ call.result = ContentField(o, call.answers[n])[1]

C5_Witness ==
    /\ call.pc = "done" /\ Local(llm[call.gw])
    /\ call.markdown_content = "- add feature #2"
    /\ call.result = "Nothing happened."

\* the system message the claims expect in the conversation of the call:
\* the conversation that was sent, and the one the dry-run artifact holds
SystemMessageIs(text) ==
    /\ call.messages[1].role = "system" /\ call.messages[1].content = text
    /\ \A j \in 1..Len(call.sent) : call.sent[j].json.messages[1].content = text
    /\ (call.dry_run /\ call.outcome = "returned")
          => files[DryRunPath(llm[call.gw])]
                = Some(Dump(Messages(text, call.markdown_content)))

\* C6 (as amended): a non-empty prompt override is the system message of the
\* conversation sent or persisted; the stored default is used when no override
\* is given and when the override is the empty text.
C6_NonEmptyOverrideWins ==
    call.pc # "idle"
        => IF Truthy(call.prompt) THEN SystemMessageIs(call.prompt[1])
           ELSE SystemMessageIs(llm[call.gw].default_prompt)

C6_Witness ==
    /\ call.pc = "done" /\ call.prompt = Some("") /\ Len(call.sent) >= 1
    /\ call.sent[1].json.messages[1].content = TemplateText

\* C6 (as claimed): whenever an override is provided, the empty text included,
\* the system message equals the override; the default is used only without one.
C6_AsClaimed ==
    call.pc # "idle"
        => IF call.prompt # None THEN SystemMessageIs(call.prompt[1])
           ELSE SystemMessageIs(llm[call.gw].default_prompt)

\* C7: when the Local backend answers with a JSON object without
\* message.content, generate returns a failure and a diagnostic logged for it
\* contains the raw response body.
C7_ShapeFailureLogsRawBody ==
    LET o == llm[call.gw]
        n == Len(call.answers)
    IN  (/\ Local(o) /\ call.pc = "done" /\ n >= 1
         /\ IsStatus(call.answers[n], 200) /\ call.answers[n].body.kind = "object"
         /\ LocalContentField(call.answers[n]) = None)
        => /\ call.outcome = "returned" /\ call.result = ""
           /\ \E j \in 1..Len(call.log) : call.log[j].raw = Some(call.answers[n].body)

\* C8: construction returns no gateway object that cannot serve a generate
\* call: none without a client (a model_type that is none of the three), none
\* of the Forwarded variant without a credential.
C8_NoUnusableGateway ==
    \A i \in Instances :
        llm[i].state = "constructed"
            => /\ llm[i].client.kind # "unset"
               /\ Forwarded(llm[i])
                    => llm[i].client.authorization = Some("Bearer " \o ApiKey)

\* C9: a generate call without dry_run on a gateway of one of the three
\* variants returns to its caller, a report or a failure, whatever the backend
\* answered; no exception leaves generate.
C9_GenerateNeverRaises ==
    LET o == llm[call.gw]
    IN  (call.pc = "done" /\ ~call.dry_run /\ (Direct(o) \/ Forwarded(o) \/ Local(o)))
        => call.outcome = "returned"

C9_Witness ==
    /\ call.pc = "done" /\ Local(llm[call.gw]) /\ call.outcome = "returned"
    /\ Len(call.answers) >= 1
    /\ call.answers[Len(call.answers)].body.kind = "array"
    /\ call.result = ""

\* C10: the notifier is called only with a report a backend produced, never
\* with the empty result of a failed generation or with the dry-run sentinel.
C10_NotifyOnlyReports ==
    \A j \in 1..Len(notified) : notified[j][2] \notin {"", DRY_RUN}

\* the conversation of a call on gateway o: its own prompt override (the
\* default loaded at construction without one) and its own digest
ConversationOf(c, o) ==
    Messages(EffectivePrompt(c.prompt, o.default_prompt), c.markdown_content)

\* what a finished call returns, from its own inputs and the answers to its
\* own requests alone
OwnResult(c, o) ==
    IF c.dry_run THEN DRY_RUN
    ELSE IF c.answers # <<>> /\ Truthy(ContentField(o, c.answers[Len(c.answers)]))
         THEN ContentField(o, c.answers[Len(c.answers)])[1]
    ELSE ""

Independent(c, o) ==
    /\ c.pc # "idle"
         => /\ c.messages = ConversationOf(c, o)
            /\ \A j \in 1..Len(c.sent) : c.sent[j].json.messages = ConversationOf(c, o)
    /\ c.pc = "dispatched" => Len(c.sent) = Len(c.answers) + 1
    /\ c.pc = "done"
         => /\ c.outcome = "returned"
            /\ c.result = OwnResult(c, o)
            /\ Len(c.sent) = Len(c.answers)

\* C11: two generate calls of two threads on one shared gateway object,
\* interleaved step by step in any order, dry-run calls included: each call
\* returns what its own digest, its own override and the answers to its own
\* requests determine, and every request it sent holds its own conversation.
C11_InterleavedCallsIndependent ==
    Independent(call, llm["lib"]) /\ Independent(peer, llm["lib"])

C11_Witness ==
    /\ call.pc = "done" /\ Len(call.answers) = 2 /\ call.result = "Two changes landed."
    /\ peer.pc = "dispatched" /\ Len(peer.answers) = 1
    /\ peer.markdown_content # call.markdown_content
    /\ peer.prompt # call.prompt
    /\ files[DEFAULT_PROMPT_PATH] # Some(TemplateText)

\* C12: no generate call changes the prompt template: the default prompt of
\* every gateway object is the text loaded at construction, the template path
\* still holds that text, so that a gateway constructed now from the same path
\* loads the same default prompt, and a dry-run call wrote its artifact to a
\* path that is not the template path.
C12_TemplateNeverChanges ==
    \A i \in Instances :
        LET o == llm[i]
        IN  o.state = "constructed"
            => /\ files[o.prompt_file_path] = Some(o.default_prompt)
               /\ o.module = "proxy_llm"
                    => ProxyLLM(o.max_retries, o.model_type, o.prompt_file_path,
                                Some(ApiKey), files).default_prompt = o.default_prompt
               /\ (call.gw = i /\ call.dry_run /\ call.outcome = "returned")
                    => DryRunPath(o) # o.prompt_file_path

\* what the caller of generate on gateway o has in hand when the HTTP client's
\* retry loop ended with answer a: that the call raised, or the value returned
CallerGets(o, a) ==
    LET r == IF o.module = "proxy_llm" THEN get_response(o.model_type, a)
             ELSE llm_py_get_response(a)
    IN  IF r.exc # "" THEN <<"raised", "">> ELSE <<"returned", r.ret>>

\* the backend answered with a success status but no usable content
\* (EmptyResponse, InvalidResponseShape)
Unhelpful(o, a) == IsStatus(a, 200) /\ ~Truthy(ContentField(o, a))

\* C13: what generate hands its caller after a transport failure with the
\* retries exhausted (backend unreachable) differs from what it hands the
\* caller when the backend answered with no usable content.
C13_FailureKindsDistinct ==
    LET o == llm[call.gw]
        n == Len(call.answers)
    IN  (/\ call.pc = "done" /\ o.client.kind = "CustomHTTPClient" /\ n >= 1
         /\ SessionException(call.answers[n]) \in {"RetryError", "ConnectionError"})
        => \A a \in HttpAnswers :
              Unhelpful(o, a) => CallerGets(o, a) # <<call.outcome, call.result>>

\* the backend of the gateway's variant answered, and the answer has no usable
\* content; the SDK's answer carries no status
NoUsableContent(o, a) ==
    IF Direct(o) THEN a.kind = "response" /\ ~Truthy(ContentField(o, a))
    ELSE Unhelpful(o, a)

\* C14: when the backend answers an attempt of a call without dry_run with
\* success but no usable content (no or empty choices, no message.content, an
\* empty candidate list), no further request is sent: the call is over with
\* as many requests as answers, exactly one when it was the first answer,
\* and generate returned the empty result.
C14_UnhelpfulNotRetried ==
    LET o == llm[call.gw]
        n == Len(call.answers)
    IN  (/\ ~call.dry_run /\ n >= 1
         /\ Direct(o) \/ Forwarded(o) \/ Local(o)
         /\ NoUsableContent(o, call.answers[n]))
        => /\ call.pc = "done" /\ call.outcome = "returned" /\ call.result = ""
           /\ Len(call.sent) = n

C14_Witness ==
    /\ Forwarded(llm[call.gw]) /\ llm[call.gw].max_retries = 2
    /\ call.pc = "done" /\ Len(call.answers) = 1 /\ Len(call.sent) = 1
    /\ IsStatus(call.answers[1], 200) /\ call.answers[1].body.obj = [choices |-> <<>>]
    /\ call.result = ""

\* the ends of an attempt the claim lists as retried: a status of the list,
\* a connection-level failure, a timeout
ListedForRetry(a) ==
    \/ a.kind \in {"ConnectionError", "ReadTimeout"}
    \/ a.kind = "response" /\ a.status \in {429, 500, 502, 503, 504}

\* attempt j of the call was retried: a request was sent after its answer
Retried(j) == Len(call.sent) > j

\* C15: with the HTTP client an attempt is retried if and only if it ended
\* with a status of {429, 500, 502, 503, 504}, a connection failure or a
\* timeout, all of them drawing on the one budget of max_retries further
\* attempts; after any other error status on the first attempt generate
\* returns a failure with exactly one request sent.
C15_RetriedIffListed ==
    LET o == llm[call.gw]
        n == Len(call.answers)
    IN  (o.client.kind = "CustomHTTPClient" /\ ~call.dry_run)
        => /\ Len(call.sent) <= o.max_retries + 1
           /\ \A j \in 1..n :
                 /\ Retried(j) => ListedForRetry(call.answers[j])
                 /\ (ListedForRetry(call.answers[j]) /\ j <= o.max_retries) => Retried(j)
           /\ (/\ n >= 1 /\ call.answers[1].kind = "response"
               /\ call.answers[1].status >= 400 /\ ~ListedForRetry(call.answers[1]))
              => /\ call.pc = "done" /\ call.outcome = "returned" /\ call.result = ""
                 /\ Len(call.sent) = 1

\* the endpoint of the adapter the gateway's model_type selects; the SDK's
\* client has its own, written "" in a request
EndpointOf(o) ==
    IF Direct(o) THEN "" ELSE IF Local(o) THEN OLLAMA_API_URL ELSE API_URL

\* C16: in a generate call without dry_run every request goes to the endpoint
\* of the adapter of the configured model_type; a non-empty string the call
\* returns is the content field of an answer that adapter received during
\* this call, and after a last answer without usable content the call
\* returns the empty result, no substitute.
C16_OnlyOwnBackendContent ==
    LET o == llm[call.gw]
        n == Len(call.answers)
    IN  ~call.dry_run
        => /\ \A j \in 1..Len(call.sent) : call.sent[j].url = EndpointOf(o)
           /\ (call.pc = "done" /\ call.outcome = "returned" /\ call.result # "")
                => \E j \in 1..n : ContentField(o, call.answers[j]) = Some(call.result)
           /\ (call.pc = "done" /\ n >= 1 /\ ~Truthy(ContentField(o, call.answers[n])))
                => call.result = ""

C16_Witness ==
    /\ Local(llm[call.gw]) /\ call.pc = "done" /\ Len(call.answers) = 2
    /\ IsStatus(call.answers[1], 500)
    /\ call.result = "Nothing happened."
    /\ \A j \in 1..2 : call.sent[j].url = OLLAMA_API_URL

\* the state of the call's state machine
Persisted ==
    /\ call.pc = "done" /\ call.dry_run /\ call.outcome = "returned"
    /\ call.result = DRY_RUN
    /\ files[DryRunPath(llm[call.gw])] = Some(Dump(call.messages))
Dispatched == call.pc = "dispatched"
Succeeded ==
    call.pc = "done" /\ ~call.dry_run /\ call.outcome = "returned" /\ call.result # ""
Failed ==
    call.pc = "done" /\ ~call.dry_run /\ call.outcome = "returned" /\ call.result = ""

\* the steps of one call, on a gateway of one of the three variants
CallStateMachine ==
    LET o == llm[call.gw]
    IN  /\ call.dry_run
            => /\ ~Dispatched /\ call.sent = <<>>
               /\ call.outcome = "returned" => Persisted
        /\ (call.pc # "idle" /\ ~call.dry_run /\ (Direct(o) \/ Forwarded(o) \/ Local(o)))
            => /\ Len(call.sent) >= 1
               /\ Len(call.sent) <= o.max_retries + 1
               /\ Len(call.answers) <= o.max_retries + 1
               /\ call.pc = "done" => (Succeeded \/ Failed) /\ ~(Succeeded /\ Failed)

\* C17: a dry-run call goes from Idle to Persisted without being Dispatched; a
\* call without dry_run is Dispatched, sends at most max_retries+1 requests
\* and, every attempt ending, eventually is Succeeded or Failed and not both
\* (unless the process is shut down while the call is in progress).
C17_CallTerminates ==
    /\ []CallStateMachine
    /\ Dispatched ~> (Succeeded \/ Failed \/ daemon.pc = "exited")

C17_Witness ==
    /\ Failed /\ llm[call.gw].max_retries = 2 /\ Len(call.answers) = 3
    /\ call.answers[1].kind = "ReadTimeout"
    /\ call.answers[2].kind = "ConnectionError"
    /\ call.answers[3].kind = "ReadTimeout"

\* C18: the conversation of a call has exactly two messages, a system message
\* with the effective prompt and then a user message with the caller's digest;
\* it is the same from its construction to the end of the call, in every
\* request sent and in the dry-run artifact.
C18_TwoMessagesInOrder ==
    LET o == llm[call.gw]
        m == call.messages
    IN  call.pc # "idle"
        => /\ Len(m) = 2
           /\ m[1].role = "system"
           /\ m[1].content = EffectivePrompt(call.prompt, o.default_prompt)
           /\ m[2].role = "user"
           /\ m[2].content = call.markdown_content
           /\ \A j \in 1..Len(call.sent) : call.sent[j].json.messages = m
           /\ (call.dry_run /\ call.outcome = "returned")
                => files[DryRunPath(o)] =
                     Some("[{\"role\": \"system\", \"content\": \"" \o m[1].content
                          \o "\"}, {\"role\": \"user\", \"content\": \""
                          \o m[2].content \o "\"}]")

C18_Witness ==
    /\ llm[call.gw].module = "llm" /\ call.dry_run /\ call.outcome = "returned"
    /\ call.prompt = Some("Custom prompt")
    /\ call.markdown_content = "- add feature #2"
    /\ files[LLM_PY_DRY_RUN_PATH] # None

\* the steps github_job takes for one repository, in order
StepsPerRepo == <<"export", "report", "notify">>

\* C19: a run of github_job takes the subscriptions in list order and for each
\* repository exports, generates the report and notifies exactly once before
\* it turns to the next; when a step raises, the run is over: no step and no
\* notification follows for the repositories that remain.
C19_GithubJobInListOrder ==
    LET d == daemon
        tr == d.trace
        n == Len(StepsPerRepo)
    IN  d.job = "github"
        => /\ \A k \in 1..Len(tr) :
                 LET r == ((k - 1) \div n) + 1
                 IN  /\ r <= Len(d.subscriptions)
                     /\ tr[k][2] = d.subscriptions[r]
                     /\ tr[k][1] \in {StepsPerRepo[((k - 1) % n) + 1], "raised"}
                     /\ tr[k][1] = "raised" => k = Len(tr) /\ d.pc = "exited"
           /\ Len(notified) = Cardinality({k \in 1..Len(tr) : tr[k][1] = "notify"})
           /\ \A j \in 1..Len(notified) :
                 /\ notified[j][1] = d.subscriptions[j]
                 /\ tr[n * j][1] = "notify"

C19_Witness ==
    /\ daemon.job = "github" /\ daemon.pc = "exited"
    /\ Len(daemon.subscriptions) = 2
    /\ daemon.subscriptions[1] # daemon.subscriptions[2]
    /\ Len(daemon.trace) = 4
    /\ daemon.trace[4] = <<"raised", daemon.subscriptions[2]>>
    /\ Len(notified) = 1

====
